---- MODULE Spec2Model ----
(***************************************************************************)
(* Double opt-in newsletter signup: the subscribe handler (POST), the      *)
(* confirm handler (GET), the subscribers table they share, and the        *)
(* notifier (sendConfirmationEmail).                                       *)
(*                                                                         *)
(* A handler runs between awaits as one step; every await on the store or  *)
(* on the notifier is a point where other requests may run.  A store       *)
(* statement executes atomically at the database (one step) and its result *)
(* reaches the handler in a later step.                                    *)
(***************************************************************************)
EXTENDS Integers, Sequences, FiniteSets, TLC

VARIABLES
    rev,        \* the deployed revision of the subscribe handler
    store,      \* the subscribers table: a set of rows
    store0,     \* the table before the first request
    req,        \* the requests: position, inputs, locals, response
    hist        \* the store statements executed, in order: the request and
                \* the table the statement left

vars == <<rev, store, store0, req, hist>>

----------------------------------------------------------------------------
(* Bounds *)

MaxReq == 2         \* requests made in one behaviour

Req == 1..MaxReq

----------------------------------------------------------------------------
(* Values *)

\* SQL NULL / JavaScript null or undefined, for an optional string: <<>>;
\* a present string s is <<s>>.
NULL == <<>>

\* A token string, by its number; the strings of different numbers differ.
Uuid(n) == <<n>>

\* The empty string, as a token.
EmptyToken == <<0>>

\* A string that uuidv4() never returns (a guessed or mistyped token).
BogusToken == Uuid(2 * MaxReq + 3)

Str_foo    == <<"f", "o", "o">>
Str_fooAt  == <<"f", "o", "o", "@">>
Str_atBar  == <<"@", "b", "a", "r", ".", "c", "o", "m">>
Str_empty  == <<>>
EmailA     == <<"a", "@", "x", ".", "y">>
EmailB     == <<"b", "@", "x", ".", "y">>

ValidEmails   == {EmailA, EmailB}
InvalidEmails == {Str_empty, Str_foo, Str_fooAt, Str_atBar}
EmailInputs   == ValidEmails \cup InvalidEmails

EmailNo(e) == IF e = EmailA THEN 1 ELSE 2

Whitespace == {" ", "\t", "\n", "\r"}

Revisions == {"server", "part_000", "part_001"}

Statuses == {"pending", "confirmed", "unsubscribed"}

----------------------------------------------------------------------------
(* The email format check *)

\* [^\s@]
NotSpaceAt(c) == c \notin Whitespace /\ c # "@"

\* [^\s@]+ on s[lo..hi]
AllNotSpaceAt(s, lo, hi) ==
    /\ lo <= hi
    /\ \A k \in lo..hi : NotSpaceAt(s[k])

\* Mutant: the pattern without the dot, /^[^\s@]+@[^\s@]+$/.
emailRegex_test_noDot(s) ==
    \E i \in 1..Len(s) :
        /\ s[i] = "@"
        /\ AllNotSpaceAt(s, 1, i - 1)
        /\ AllNotSpaceAt(s, i + 1, Len(s))

\* Mutant: the check only asks for an "@".
emailRegex_test_containsAt(s) == \E i \in 1..Len(s) : s[i] = "@"

\* /^[^\s@]+@[^\s@]+\.[^\s@]+$/.test(s)
emailRegex_test(s) ==
    \E i \in 1..Len(s) : \E j \in 1..Len(s) :
        /\ i < j
        /\ s[i] = "@"
        /\ s[j] = "."
        /\ AllNotSpaceAt(s, 1, i - 1)
        /\ AllNotSpaceAt(s, i + 1, j - 1)
        /\ AllNotSpaceAt(s, j + 1, Len(s))

\* !email : the field is missing or is the empty string
EmailFalsy(body) == ~body.has \/ body.email = <<>>

\* !token : the parameter is missing or is the empty string
\* Mutant: only an absent parameter is rejected, "?token=" goes on to the update.
TokenFalsy_nullOnly(param) == param = NULL

TokenFalsy(param) == param = NULL \/ param = EmptyToken

----------------------------------------------------------------------------
(* Responses *)

Resp(s, m) == [status |-> s, message |-> m]
NoResp == Resp(0, "")

----------------------------------------------------------------------------
(* The subscribers table *)

Row(i, e, s, t) == [id |-> i, email |-> e, status |-> s, confirmation_token |-> t]

\* SQL equality: never true of NULL.
SqlEq(a, b) == a # NULL /\ b # NULL /\ a = b

\* The id a new row gets.
NewId(S) == IF S = {} THEN 1
            ELSE (CHOOSE m \in {x.id : x \in S} : \A x \in S : x.id <= m) + 1

\* Mutant: the conflict branch leaves the old token.
ConflictUpdate_keepToken(x, token) ==
    [x EXCEPT !.status = IF x.status = "unsubscribed" THEN "pending" ELSE x.status]

\* Mutant: the conflict branch sets every status to pending.
ConflictUpdate_resetPending(x, token) ==
    [x EXCEPT !.confirmation_token = token, !.status = "pending"]

\* Mutant: the conflict branch leaves the status as it is.
ConflictUpdate_keepStatus(x, token) ==
    [x EXCEPT !.confirmation_token = token]

\* ON CONFLICT (email) DO UPDATE SET confirmation_token = EXCLUDED...,
\* status = CASE WHEN subscribers.status = 'unsubscribed' THEN 'pending'
\*               ELSE subscribers.status END
ConflictUpdate(x, token) ==
    [x EXCEPT !.confirmation_token = token,
              !.status = IF x.status = "unsubscribed" THEN "pending" ELSE x.status]

\* Mutant: the address's row is deleted and inserted anew (REPLACE semantics).
Upsert_deleteInsert(S, email, token) ==
    {x \in S : x.email # email} \cup {Row(NewId(S), email, "pending", token)}

\* Mutant: a plain INSERT, without the ON CONFLICT clause taking effect.
Upsert_plainInsert(S, email, token) ==
    S \cup {Row(NewId(S), email, "pending", token)}

\* Mutant: the insert leaves the token column out.
Upsert_noToken(S, email, token) ==
    IF \E x \in S : x.email = email
    THEN {IF x.email = email THEN ConflictUpdate(x, token) ELSE x : x \in S}
    ELSE S \cup {Row(NewId(S), email, "pending", NULL)}

\* INSERT INTO subscribers(email, status, confirmation_token, ...)
\* VALUES($1, 'pending', $2, ...) ON CONFLICT (email) DO UPDATE ...
Upsert(S, email, token) ==
    IF \E x \in S : x.email = email
    THEN {IF x.email = email THEN ConflictUpdate(x, token) ELSE x : x \in S}
    ELSE S \cup {Row(NewId(S), email, "pending", token)}

\* RETURNING id, status, email
UpsertReturning(S, email, token) ==
    {[id |-> x.id, status |-> x.status, email |-> x.email] :
        x \in {y \in Upsert(S, email, token) : y.email = email}}

\* Mutant: the WHERE clause without the token condition.
ConfirmWhere_statusOnly(x, token) == x.status = "pending"

\* Mutant: the update matches on the token alone, whatever the status.
ConfirmWhere_tokenOnly(x, token) == SqlEq(x.confirmation_token, token)

\* WHERE confirmation_token = $1 AND status = 'pending'
ConfirmWhere(x, token) == SqlEq(x.confirmation_token, token) /\ x.status = "pending"

\* Mutant: the update sets the status and leaves the token.
ConfirmUpdate_keepToken(S, token) ==
    {IF SqlEq(x.confirmation_token, token) /\ x.status = "pending"
     THEN [x EXCEPT !.status = "confirmed"]
     ELSE x : x \in S}

\* Mutant: the update clears the token and leaves the status.
ConfirmUpdate_tokenOnly(S, token) ==
    {IF SqlEq(x.confirmation_token, token) /\ x.status = "pending"
     THEN [x EXCEPT !.confirmation_token = NULL]
     ELSE x : x \in S}

\* UPDATE subscribers SET status = 'confirmed', confirmation_token = NULL WHERE ...
ConfirmUpdate(S, token) ==
    {IF ConfirmWhere(x, token)
     THEN [x EXCEPT !.status = "confirmed", !.confirmation_token = NULL]
     ELSE x : x \in S}

\* RETURNING id, email
ConfirmReturning(S, token) ==
    {[id |-> x.id, email |-> x.email] : x \in {y \in S : ConfirmWhere(y, token)}}

----------------------------------------------------------------------------
(* Requests *)

NoBody == [parsed |-> FALSE, has |-> FALSE, email |-> <<>>]

Bodies ==
    {NoBody, [parsed |-> TRUE, has |-> FALSE, email |-> <<>>]}
    \cup {[parsed |-> TRUE, has |-> TRUE, email |-> e] : e \in EmailInputs}

\* The tokens the table has held so far.
StoredTokens ==
    {x.confirmation_token : x \in store0}
    \cup UNION {{x.confirmation_token : x \in hist[k].after} : k \in 1..Len(hist)}

\* The tokens of the confirmation links sent so far.
SentTokens ==
    UNION {{req[q].sends[i].token : i \in 1..Len(req[q].sends)} : q \in Req}

\* url.searchParams.get('token'): null, "", or a string: one a link carried,
\* one the table has held, or one that was never issued (a token cannot be
\* guessed before it is issued).
Params == {NULL, EmptyToken, BogusToken} \cup StoredTokens \cup SentTokens

Idle == [handler |-> "none", pc |-> "idle", body |-> NoBody, param |-> NULL,
         token |-> NULL, rows |-> {}, sends |-> <<>>, sendResult |-> "none",
         dbError |-> "none", resp |-> NoResp]

\* result.rows[0]
Row0(rows) == CHOOSE x \in rows : TRUE

\* result.rowCount
RowCount(rows) == Cardinality(rows)

Done(r, response) == [req[r] EXCEPT !.pc = "done", !.resp = response]

Started(r) == req[r].pc # "idle"

\* Requests are numbered in the order they arrive.
Arrives(r) == req[r].pc = "idle" /\ \A q \in Req : q < r => Started(q)

----------------------------------------------------------------------------
(* Initial state *)

\* The order of the statuses in the initial table (the two addresses are
\* alike, so the first one's status comes no later than the second one's).
StatusNo(st) ==
    IF st = "absent" THEN 0
    ELSE IF st = "pending" THEN 1
    ELSE IF st = "confirmed" THEN 2 ELSE 3

InitRow(e, s) ==
    Row(EmailNo(e), e, s, IF s = "pending" THEN Uuid(EmailNo(e)) ELSE NULL)

Init ==
    /\ rev \in Revisions
    /\ \E f \in [ValidEmails -> Statuses \cup {"absent"}] :
          /\ StatusNo(f[EmailA]) <= StatusNo(f[EmailB])
          /\ store = {InitRow(e, f[e]) : e \in {x \in ValidEmails : f[x] # "absent"}}
    /\ store0 = store
    /\ req = [r \in Req |-> Idle]
    /\ hist = <<>>

----------------------------------------------------------------------------
(* POST /api/subscribe *)

\* uuidv4(): a string no other call returns and no row of the initial table
\* holds (request r gets the string numbered after the initial ones and r).
\* Mutant: the generator returns the same token to every request.
uuidv4_constant(r) == Uuid(Cardinality(ValidEmails) + 1)

uuidv4(r) == Uuid(Cardinality(ValidEmails) + r)

\* const token = uuidv4(), then the upsert is issued
IssueUpsert(r, rec) ==
    req' = [req EXCEPT ![r] = [rec EXCEPT !.pc = "upsert", !.token = uuidv4(r)]]

\* request.json() throws
ParseErrorResp ==
    IF rev = "server" THEN Resp(400, "Invalid request format.")
    ELSE Resp(500, "Internal server error occurred.")

\* From the request to the first store statement, the body drawn from B.
PostStartWith(r, B) ==
    /\ Arrives(r)
    /\ \E body \in B :
        LET rec == [req[r] EXCEPT !.handler = "POST", !.body = body]
            stop(response) ==
                req' = [req EXCEPT ![r] = [rec EXCEPT !.pc = "done",
                                                      !.resp = response]]
        IN  IF ~body.parsed THEN stop(ParseErrorResp)
            ELSE IF EmailFalsy(body)
                 THEN stop(Resp(400, "Email address is required."))
            ELSE IF ~emailRegex_test(body.email)
                 THEN stop(Resp(400, "Please enter a valid email address format."))
            ELSE IF rev = "server"
                 THEN req' = [req EXCEPT ![r] = [rec EXCEPT !.pc = "probe"]]
            ELSE IssueUpsert(r, rec)
    /\ UNCHANGED <<rev, store, store0, hist>>

\* From the request to the first store statement.
PostStart(r) == PostStartWith(r, Bodies)

\* Mutant: the probe's failure is swallowed and the handler goes on to the upsert.
PostProbe_ignoreFailure(r) ==
    /\ req[r].pc = "probe"
    /\ \E ok \in BOOLEAN :
        IF ok THEN IssueUpsert(r, req[r])
        ELSE IssueUpsert(r, [req[r] EXCEPT !.dbError = "probe"])
    /\ UNCHANGED <<rev, store, store0, hist>>

\* await db.query('SELECT 1')
PostProbe(r) ==
    /\ req[r].pc = "probe"
    /\ \E ok \in BOOLEAN :
        IF ok THEN IssueUpsert(r, req[r])
        ELSE req' = [req EXCEPT ![r] = [Done(r,
                    Resp(503, "Database service unavailable. Please try again later."))
                    EXCEPT !.dbError = "probe"]]
    /\ UNCHANGED <<rev, store, store0, hist>>

\* The upsert throws
UpsertErrorResp ==
    IF rev = "part_000" THEN Resp(500, "Failed to subscribe. Please try again later.")
    ELSE Resp(500, "Database error occurred. Please try again later.")

\* Mutant: a call holds its row locked from its upsert until its notifier
\* call returns, so an upsert on that address waits for a pending send.
PostUpsertExec_lockHeld(r) ==
    /\ req[r].pc = "upsert"
    /\ \A q \in Req :
         ~(req[q].pc = "sending" /\ req[q].body.email = req[r].body.email)
    /\ \E ok \in BOOLEAN :
        IF ok
        THEN /\ store' = Upsert(store, req[r].body.email, req[r].token)
             /\ req' = [req EXCEPT ![r] = [req[r] EXCEPT
                    !.pc = "upserted",
                    !.rows = UpsertReturning(store, req[r].body.email, req[r].token)]]
             /\ hist' = Append(hist, [r |-> r, after |-> store'])
        ELSE /\ req' = [req EXCEPT ![r] = [Done(r, UpsertErrorResp)
                                             EXCEPT !.dbError = "upsert"]]
             /\ UNCHANGED <<store, hist>>
    /\ UNCHANGED <<rev, store0>>

\* The database executes the upsert (or fails).
PostUpsertExec(r) ==
    /\ req[r].pc = "upsert"
    /\ \E ok \in BOOLEAN :
        IF ok
        THEN /\ store' = Upsert(store, req[r].body.email, req[r].token)
             /\ req' = [req EXCEPT ![r] = [req[r] EXCEPT
                    !.pc = "upserted",
                    !.rows = UpsertReturning(store, req[r].body.email, req[r].token)]]
             /\ hist' = Append(hist, [r |-> r, after |-> store'])
        ELSE /\ req' = [req EXCEPT ![r] = [Done(r, UpsertErrorResp)
                                             EXCEPT !.dbError = "upsert"]]
             /\ UNCHANGED <<store, hist>>
    /\ UNCHANGED <<rev, store0>>

\* Mutant: the send is started without await and the handler answers at once.
PostUpsertReturn_noAwait(r) ==
    /\ req[r].pc = "upserted"
    /\ LET rows == req[r].rows IN
        IF RowCount(rows) > 0
        THEN IF Row0(rows).status = "confirmed"
             THEN req' = [req EXCEPT ![r] = Done(r,
                        Resp(200, "You are already subscribed and confirmed!"))]
             ELSE req' = [req EXCEPT ![r] = [req[r] EXCEPT
                        !.pc = "done",
                        !.sends = Append(@, [to |-> Row0(rows).email,
                                             token |-> req[r].token]),
                        !.resp = Resp(200, "Please check your email to confirm your subscription!")]]
        ELSE req' = [req EXCEPT ![r] = Done(r,
                   Resp(500, "Failed to process subscription request. Please try again."))]
    /\ UNCHANGED <<rev, store, store0, hist>>

\* The upsert's result reaches the handler: it answers, or calls the notifier.
PostUpsertReturn(r) ==
    /\ req[r].pc = "upserted"
    /\ LET rows == req[r].rows IN
        IF RowCount(rows) > 0
        THEN IF Row0(rows).status = "confirmed"
             THEN req' = [req EXCEPT ![r] = Done(r,
                        Resp(200, "You are already subscribed and confirmed!"))]
             ELSE req' = [req EXCEPT ![r] = [req[r] EXCEPT
                        !.pc = "sending",
                        !.sends = Append(@, [to |-> Row0(rows).email,
                                             token |-> req[r].token])]]
        ELSE req' = [req EXCEPT ![r] = Done(r,
                   Resp(500, "Failed to process subscription request. Please try again."))]
    /\ UNCHANGED <<rev, store, store0, hist>>

\* sendConfirmationEmail rejects: the answer of revision v
SendErrorRespOf(v) ==
    IF v = "server"
    THEN Resp(500, "Failed to send confirmation email. Please try again or contact support.")
    ELSE IF v = "part_000"
    THEN Resp(500, "Failed to subscribe. Please try again later.")
    ELSE Resp(200, "Subscription saved! Please check your email or contact support if you don't receive confirmation.")

\* sendConfirmationEmail rejects
SendErrorResp == SendErrorRespOf(rev)

\* Mutant: a failed send is tried once more before the handler answers.
PostSendDone_retry(r) ==
    /\ req[r].pc = "sending"
    /\ \E ok \in BOOLEAN :
        IF ~ok /\ Len(req[r].sends) < 2
        THEN req' = [req EXCEPT ![r] = [req[r] EXCEPT
                !.sends = Append(@, [to |-> req[r].body.email,
                                     token |-> req[r].token])]]
        ELSE req' = [req EXCEPT ![r] = [req[r] EXCEPT
                !.pc = "done",
                !.sendResult = IF ok THEN "ok" ELSE "failed",
                !.resp = IF ok
                         THEN Resp(200, "Please check your email to confirm your subscription!")
                         ELSE SendErrorResp]]
    /\ UNCHANGED <<rev, store, store0, hist>>

\* Mutant: a failed send rolls the upsert back by clearing the row's token.
PostSendDone_rollback(r) ==
    /\ req[r].pc = "sending"
    /\ \E ok \in BOOLEAN :
        /\ req' = [req EXCEPT ![r] = [req[r] EXCEPT
              !.pc = "done",
              !.sendResult = IF ok THEN "ok" ELSE "failed",
              !.resp = IF ok
                       THEN Resp(200, "Please check your email to confirm your subscription!")
                       ELSE SendErrorResp]]
        /\ store' = IF ok THEN store
                    ELSE {IF x.confirmation_token = req[r].token
                          THEN [x EXCEPT !.confirmation_token = NULL]
                          ELSE x : x \in store}
    /\ UNCHANGED <<rev, store0, hist>>

\* await sendConfirmationEmail(...) completes
PostSendDone(r) ==
    /\ req[r].pc = "sending"
    /\ \E ok \in BOOLEAN :
        req' = [req EXCEPT ![r] = [req[r] EXCEPT
            !.pc = "done",
            !.sendResult = IF ok THEN "ok" ELSE "failed",
            !.resp = IF ok
                     THEN Resp(200, "Please check your email to confirm your subscription!")
                     ELSE SendErrorResp]]
    /\ UNCHANGED <<rev, store, store0, hist>>

----------------------------------------------------------------------------
(* GET /confirm-subscription *)

GetStart(r) ==
    /\ Arrives(r)
    /\ \E param \in Params :
        LET rec == [req[r] EXCEPT !.handler = "GET", !.param = param]
        IN  IF TokenFalsy(param)
            THEN req' = [req EXCEPT ![r] = [rec EXCEPT !.pc = "done",
                    !.resp = Resp(400, "Confirmation token is missing from the link.")]]
            ELSE req' = [req EXCEPT ![r] = [rec EXCEPT !.pc = "update"]]
    /\ UNCHANGED <<rev, store, store0, hist>>

\* The database executes the conditional update (or fails).
GetUpdateExec(r) ==
    /\ req[r].pc = "update"
    /\ \E ok \in BOOLEAN :
        IF ok
        THEN /\ store' = ConfirmUpdate(store, req[r].param)
             /\ req' = [req EXCEPT ![r] = [req[r] EXCEPT
                    !.pc = "updated",
                    !.rows = ConfirmReturning(store, req[r].param)]]
             /\ hist' = Append(hist, [r |-> r, after |-> store'])
        ELSE /\ req' = [req EXCEPT ![r] = [Done(r,
                    Resp(500, "An error occurred during confirmation. Please try again."))
                    EXCEPT !.dbError = "update"]]
             /\ UNCHANGED <<store, hist>>
    /\ UNCHANGED <<rev, store0>>

\* Mutant: the handler answers only when the update matched a row.
GetUpdateReturn_matchOnly(r) ==
    /\ req[r].pc = "updated"
    /\ RowCount(req[r].rows) > 0
    /\ req' = [req EXCEPT ![r] = Done(r,
            Resp(200, "Your subscription has been successfully confirmed!"))]
    /\ UNCHANGED <<rev, store, store0, hist>>

\* The update's result reaches the handler.
GetUpdateReturn(r) ==
    /\ req[r].pc = "updated"
    /\ req' = [req EXCEPT ![r] = Done(r,
            IF RowCount(req[r].rows) > 0
            THEN Resp(200, "Your subscription has been successfully confirmed!")
            ELSE Resp(404, "Invalid or expired confirmation link, or subscription already confirmed."))]
    /\ UNCHANGED <<rev, store, store0, hist>>

----------------------------------------------------------------------------

Next ==
    \E r \in Req :
        \/ PostStart(r)
        \/ PostProbe(r)
        \/ PostUpsertExec(r)
        \/ PostUpsertReturn(r)
        \/ PostSendDone(r)
        \/ GetStart(r)
        \/ GetUpdateExec(r)
        \/ GetUpdateReturn(r)

Spec == Init /\ [][Next]_vars

\* A step of request r after its arrival: an awaited store query or notifier
\* send completes and the handler runs on to its next await or its answer.
Continue(r) ==
    \/ PostProbe(r)
    \/ PostUpsertExec(r)
    \/ PostUpsertReturn(r)
    \/ PostSendDone(r)
    \/ GetUpdateExec(r)
    \/ GetUpdateReturn(r)

\* Every awaited query and send of every request completes; requests need
\* not arrive.
SpecFair == Spec /\ \A r \in Req : WF_vars(Continue(r))

----------------------------------------------------------------------------
(* The format check alone, on every short string *)

MaxLen == 6

\* A letter, the two characters the pattern names, and a whitespace character.
Alphabet == {"a", "@", ".", " "}

StringsUpTo(n) == UNION {[1..k -> Alphabet] : k \in 0..n}

\* Parsed bodies whose email field is a string of at most MaxLen characters.
StringBodies ==
    {[parsed |-> TRUE, has |-> TRUE, email |-> e] : e \in StringsUpTo(MaxLen)}

\* The first request is a subscribe with such a body, up to its first store
\* statement.
CheckFormat == PostStartWith(1, StringBodies)

SpecFormat == Init /\ [][CheckFormat]_vars

----------------------------------------------------------------------------
(* The history of store statements *)

Post(r) == req[r].handler = "POST"
Get(r)  == req[r].handler = "GET"

\* r's store statement (upsert or conditional update) has executed.
InHist(r) == \E k \in 1..Len(hist) : hist[k].r = r

\* Its place among the executed statements.
Pos(r) == CHOOSE k \in 1..Len(hist) : hist[k].r = r

\* The table after the first k statements.
StoreAt(k) == IF k = 0 THEN store0 ELSE hist[k].after

\* The table right before, and right after, r's statement.
Before(r) == StoreAt(Pos(r) - 1)
After(r)  == StoreAt(Pos(r))

\* Nothing but the executed statements has written the table.
StoreIsLatest == store = StoreAt(Len(hist))

\* r has been called and has not answered yet.
InFlight(r) == req[r].pc \notin {"idle", "done"}

RowsOf(S, e) == {x \in S : x.email = e}

\* Some row of S is pending and holds token t.
PendingWith(S, t) == \E x \in S : x.status = "pending" /\ x.confirmation_token = t

Responded(r, code) == req[r].pc = "done" /\ req[r].resp.status = code

Answered(r) == req[r].pc = "done"

----------------------------------------------------------------------------
(* Confirming one token twice *)

\* r1 and r2 are confirm calls carrying the same token whose updates executed
\* one right after the other (r1 first) on a table where some row was pending
\* with that token.
ConcurrentConfirms(r1, r2) ==
    /\ r1 # r2 /\ Get(r1) /\ Get(r2)
    /\ req[r1].param = req[r2].param
    /\ InHist(r1) /\ InHist(r2)
    /\ Pos(r2) = Pos(r1) + 1
    /\ PendingWith(Before(r1), req[r1].param)

\* C1: two concurrent confirm calls with the same token on a record pending
\* with that token: the first update matches one row and the second none, so
\* the answers are one 200 and one 404, and the record is confirmed with a
\* NULL token afterwards; and no two confirm calls with one token ever both
\* answer 200.
C1_ConcurrentConfirmOnce ==
    /\ \A r1 \in Req : \A r2 \in Req :
         ConcurrentConfirms(r1, r2) =>
            /\ RowCount(req[r1].rows) = 1
            /\ RowCount(req[r2].rows) = 0
            /\ Answered(r1) => req[r1].resp.status = 200
            /\ Answered(r2) => req[r2].resp.status = 404
            /\ \A x \in Before(r1) :
                 ConfirmWhere(x, req[r1].param) =>
                    Row(x.id, x.email, "confirmed", NULL) \in After(r2)
            /\ Len(hist) = Pos(r2) => store = After(r2)
    /\ \A r1 \in Req : \A r2 \in Req :
         (r1 # r2 /\ Get(r1) /\ Get(r2) /\ req[r1].param = req[r2].param)
            => ~(Responded(r1, 200) /\ Responded(r2, 200))

\* The two calls overlap: the second one's update has executed and it has
\* answered 404 while the first, whose update matched, has not answered yet.
C1_Witness ==
    \E r1 \in Req : \E r2 \in Req :
        /\ ConcurrentConfirms(r1, r2)
        /\ InFlight(r1) /\ RowCount(req[r1].rows) = 1
        /\ Responded(r2, 404)
        /\ \E x \in store : x.status = "confirmed" /\ x.confirmation_token = NULL

\* Two confirm calls carrying the same token, the update of r2 executed after
\* that of r1, which found a record pending with that token.
SequentialConfirms(r1, r2) ==
    /\ r1 # r2 /\ Get(r1) /\ Get(r2)
    /\ req[r1].param = req[r2].param
    /\ InHist(r1) /\ InHist(r2)
    /\ Pos(r1) < Pos(r2)
    /\ PendingWith(Before(r1), req[r1].param)

\* C2: of two confirm calls with one token in sequence, on a record pending
\* with it, the first matches one row and answers 200; the later one matches
\* none, answers 404 and leaves the table as it was.
C2_ConfirmTwice ==
    /\ StoreIsLatest
    /\ \A r1 \in Req : \A r2 \in Req :
         SequentialConfirms(r1, r2) =>
            /\ RowCount(req[r1].rows) = 1
            /\ Answered(r1) => req[r1].resp.status = 200
            /\ RowCount(req[r2].rows) = 0
            /\ Answered(r2) => req[r2].resp.status = 404
            /\ After(r2) = Before(r2)

\* Both calls have answered: the first 200, the second 404.
C2_Witness ==
    \E r1 \in Req : \E r2 \in Req :
        /\ SequentialConfirms(r1, r2)
        /\ Responded(r1, 200) /\ Responded(r2, 404)

----------------------------------------------------------------------------
(* Subscribe, by the state of the address *)

EmailOf(s) == req[s].body.email

\* The notifier call a subscribe request makes: its address and its token.
Mail(s) == [to |-> EmailOf(s), token |-> req[s].token]

\* s has passed the point where it calls the notifier or answers without.
PastUpsertReturn(s) == req[s].pc \in {"sending", "done"}

\* q's executed statement wrote the row of address e.
Touches(q, e) ==
    \/ Post(q) /\ EmailOf(q) = e
    \/ Get(q) /\ \E x \in req[q].rows : x.email = e

\* s's upsert, then c's update carrying s's token, and between the two no
\* statement on that address, which was not confirmed before s.
RoundTrip(s, c) ==
    /\ Post(s) /\ Get(c)
    /\ InHist(s) /\ InHist(c)
    /\ Pos(s) < Pos(c)
    /\ req[c].param = req[s].token
    /\ \A k \in (Pos(s) + 1)..(Pos(c) - 1) : ~Touches(hist[k].r, EmailOf(s))
    /\ ~\E x \in Before(s) : x.email = EmailOf(s) /\ x.status = "confirmed"

\* C3: subscribe(email) on an unseen, pending or unsubscribed address, then
\* confirm with the token of that subscribe call, nothing else on the address
\* in between: confirm matches that one row and answers 200, and the record
\* is confirmed with a NULL token.
C3_RoundTrip ==
    /\ StoreIsLatest
    /\ \A s \in Req : \A c \in Req :
         RoundTrip(s, c) =>
            /\ RowCount(req[c].rows) = 1
            /\ Row0(req[c].rows).email = EmailOf(s)
            /\ Answered(c) => req[c].resp.status = 200
            /\ RowsOf(After(c), EmailOf(s)) # {}
            /\ \A x \in RowsOf(After(c), EmailOf(s)) :
                 x.status = "confirmed" /\ x.confirmation_token = NULL

\* The token went to the notifier and the confirm call answered 200.
C3_Witness ==
    \E s \in Req : \E c \in Req :
        /\ RoundTrip(s, c)
        /\ req[s].sends = <<Mail(s)>>
        /\ Responded(c, 200)
        /\ \E x \in store : /\ x.email = EmailOf(s)
                            /\ x.status = "confirmed"
                            /\ x.confirmation_token = NULL

CheckEmailResp == Resp(200, "Please check your email to confirm your subscription!")

AlreadyResp == Resp(200, "You are already subscribed and confirmed!")

\* C4: a subscribe call for an address without a record, whose upsert
\* executed: the table then holds exactly one row for the address, pending,
\* with the call's non-NULL token; the notifier is called once, with the
\* address and that token; and if the send succeeds the answer is 200
\* "check your email".
C4_SubscribeUnseen ==
    \A s \in Req :
        (Post(s) /\ InHist(s) /\ RowsOf(Before(s), EmailOf(s)) = {}) =>
            /\ req[s].token # NULL
            /\ \E x \in After(s) :
                 /\ RowsOf(After(s), EmailOf(s)) = {x}
                 /\ x.status = "pending"
                 /\ x.confirmation_token = req[s].token
            /\ req[s].sends = IF PastUpsertReturn(s) THEN <<Mail(s)>> ELSE <<>>
            /\ (Answered(s) /\ req[s].sendResult = "ok") => req[s].resp = CheckEmailResp

C4_Witness ==
    \E s \in Req :
        /\ Post(s) /\ InHist(s) /\ RowsOf(Before(s), EmailOf(s)) = {}
        /\ req[s].sends = <<Mail(s)>>
        /\ req[s].sendResult = "ok"
        /\ req[s].resp = CheckEmailResp
        /\ Row(NewId(Before(s)), EmailOf(s), "pending", req[s].token) \in store

\* The address of s had a row of this status right before s's upsert.
WasStatus(s, status) ==
    /\ Post(s) /\ InHist(s)
    /\ \E x \in Before(s) : x.email = EmailOf(s) /\ x.status = status

\* C5: a subscribe call for a confirmed address leaves the status confirmed,
\* never calls the notifier, and answers 200 "already subscribed".
C5_SubscribeConfirmed ==
    \A s \in Req :
        WasStatus(s, "confirmed") =>
            /\ RowsOf(After(s), EmailOf(s)) # {}
            /\ \A x \in RowsOf(After(s), EmailOf(s)) : x.status = "confirmed"
            /\ req[s].sends = <<>>
            /\ req[s].pc \in {"upserted", "done"}
            /\ Answered(s) => req[s].resp = AlreadyResp

C5_Witness ==
    \E s \in Req :
        /\ WasStatus(s, "confirmed")
        /\ req[s].resp = AlreadyResp
        /\ req[s].sends = <<>>
        /\ \E x \in store : x.email = EmailOf(s) /\ x.status = "confirmed"

\* C6: a subscribe call for an unsubscribed address sets the status to
\* pending and the token to the call's new token, and calls the notifier
\* with the address and that token.
C6_SubscribeUnsubscribed ==
    \A s \in Req :
        WasStatus(s, "unsubscribed") =>
            /\ req[s].token # NULL
            /\ \A x \in RowsOf(Before(s), EmailOf(s)) :
                 /\ x.confirmation_token # req[s].token
                 /\ Row(x.id, x.email, "pending", req[s].token) \in After(s)
            /\ \A x \in RowsOf(After(s), EmailOf(s)) :
                 x.status = "pending" /\ x.confirmation_token = req[s].token
            /\ req[s].sends = IF PastUpsertReturn(s) THEN <<Mail(s)>> ELSE <<>>

C6_Witness ==
    \E s \in Req :
        /\ WasStatus(s, "unsubscribed")
        /\ req[s].sends = <<Mail(s)>>
        /\ \E x \in store : /\ x.email = EmailOf(s)
                            /\ x.status = "pending"
                            /\ x.confirmation_token = req[s].token

----------------------------------------------------------------------------
(* Invariants of the table *)

\* C7 as stated: a row holds a token only while it is pending.
C7_TokenOnlyWhenPending ==
    \A x \in store : x.confirmation_token # NULL => x.status = "pending"

\* The k-th statement cleared the token of the row with this id.
ClearedAt(k, id) ==
    /\ \E x \in StoreAt(k - 1) : x.id = id /\ x.confirmation_token # NULL
    /\ \E y \in StoreAt(k) : y.id = id /\ y.confirmation_token = NULL

\* The k-th statement is a confirm update that matched the row with this id.
ConfirmedAt(k, id) ==
    /\ Get(hist[k].r)
    /\ \E z \in req[hist[k].r].rows : z.id = id

\* C7, amended: a row holds a token only while it is pending, or when it is
\* confirmed and the token is the one a subscribe call on the already
\* confirmed address wrote; and a statement clears a row's token exactly when
\* it is a confirm update that matched the row.
C7_TokenInvariant ==
    /\ StoreIsLatest
    /\ \A x \in store :
         x.confirmation_token # NULL =>
            \/ x.status = "pending"
            \/ /\ x.status = "confirmed"
               /\ \E s \in Req : /\ WasStatus(s, "confirmed")
                                 /\ EmailOf(s) = x.email
                                 /\ req[s].token = x.confirmation_token
    /\ \A k \in 1..Len(hist) :
         \A x \in StoreAt(k - 1) :
            x.confirmation_token # NULL =>
                (ClearedAt(k, x.id) <=> ConfirmedAt(k, x.id))

\* A confirm cleared a row's token, and a later subscribe call wrote a new
\* token into the confirmed row.
C7_Witness ==
    \E c \in Req : \E s \in Req :
        /\ Get(c) /\ InHist(c) /\ Post(s) /\ InHist(s)
        /\ Pos(c) < Pos(s)
        /\ ClearedAt(Pos(c), Row0(req[s].rows).id)
        /\ \E x \in store : /\ x.email = EmailOf(s)
                            /\ x.status = "confirmed"
                            /\ x.confirmation_token = req[s].token

\* C8: no two rows have the same email, and every address whose upsert
\* executed has exactly one row.
C8_OneRecordPerEmail ==
    /\ \A x \in store : \A y \in store : x.email = y.email => x = y
    /\ \A s \in Req :
         (Post(s) /\ InHist(s)) => Cardinality(RowsOf(store, EmailOf(s))) = 1

\* Two subscribe calls for one address, both upserted and neither answered.
C8_Witness ==
    \E s1 \in Req : \E s2 \in Req :
        /\ s1 # s2 /\ Post(s1) /\ Post(s2)
        /\ EmailOf(s1) = EmailOf(s2)
        /\ InHist(s1) /\ InHist(s2)
        /\ InFlight(s1) /\ InFlight(s2)
        /\ Cardinality(RowsOf(store, EmailOf(s1))) = 1

\* C9: a row that is confirmed is confirmed after every step.
C9_ConfirmedSticky ==
    [][\A x \in store :
          x.status = "confirmed" =>
             \E y \in store' : /\ y.id = x.id
                               /\ y.email = x.email
                               /\ y.status = "confirmed"]_vars

\* A subscribe call on a confirmed address and a confirm call carrying that
\* call's token have both executed, and the row is still confirmed.
C9_Witness ==
    \E s \in Req : \E c \in Req :
        /\ WasStatus(s, "confirmed")
        /\ Get(c) /\ InHist(c) /\ Pos(s) < Pos(c)
        /\ req[c].param = req[s].token
        /\ \E x \in store : x.email = EmailOf(s) /\ x.status = "confirmed"

----------------------------------------------------------------------------
(* Validation *)

\* The email field is missing, or is "", "foo", "foo@" or "@bar.com".
InvalidBody(b) == b.parsed /\ (~b.has \/ b.email \in InvalidEmails)

\* C10: a subscribe request with a missing, empty or malformed email is
\* answered 400 at once: no store statement, no token, no notifier call, and
\* the table is what the other requests' statements made it.
C10_InvalidEmailRejected ==
    /\ StoreIsLatest
    /\ \A r \in Req :
         (Post(r) /\ InvalidBody(req[r].body)) =>
            /\ req[r].pc = "done"
            /\ req[r].resp =
                 IF EmailFalsy(req[r].body)
                 THEN Resp(400, "Email address is required.")
                 ELSE Resp(400, "Please enter a valid email address format.")
            /\ ~InHist(r)
            /\ req[r].token = NULL
            /\ req[r].rows = {}
            /\ req[r].sends = <<>>

\* "foo@" and a missing field, both rejected, the table untouched.
C10_Witness ==
    \E r1 \in Req : \E r2 \in Req :
        /\ Post(r1) /\ req[r1].body.has /\ req[r1].body.email = Str_fooAt
        /\ Post(r2) /\ req[r2].body.parsed /\ ~req[r2].body.has
        /\ Responded(r1, 400) /\ Responded(r2, 400)
        /\ store = store0

\* The positions of r's statements in the statement history.
Statements(r) == {k \in 1..Len(hist) : hist[k].r = r}

\* C11: a confirm request whose token parameter is absent or empty is answered
\* 400 at once: it issues no statement, matches nothing, and the table is
\* what the other requests' statements made it.
C11_MissingTokenRejected ==
    /\ StoreIsLatest
    /\ \A r \in Req :
         (Get(r) /\ req[r].param \in {NULL, EmptyToken}) =>
            /\ req[r].pc = "done"
            /\ req[r].resp = Resp(400, "Confirmation token is missing from the link.")
            /\ Statements(r) = {}
            /\ req[r].rows = {}
            /\ req[r].dbError = "none"

\* A link without the parameter and a link with "?token=", both answered 400,
\* the table untouched.
C11_Witness ==
    \E r1 \in Req : \E r2 \in Req :
        /\ Get(r1) /\ req[r1].param = NULL
        /\ Get(r2) /\ req[r2].param = EmptyToken
        /\ Responded(r1, 400) /\ Responded(r2, 400)
        /\ store = store0

\* C12: a confirm whose update finds no row that is pending and holds its
\* token matches nothing, leaves the table as it was, and is answered 404.
C12_NoMatchNoOp ==
    \A c \in Req :
        (Get(c) /\ InHist(c) /\ ~PendingWith(Before(c), req[c].param)) =>
            /\ req[c].rows = {}
            /\ After(c) = Before(c)
            /\ Answered(c) =>
                  req[c].resp = Resp(404,
                    "Invalid or expired confirmation link, or subscription already confirmed.")

\* A pending address subscribes again, which overwrites its token; a confirm
\* with the old token is then answered 404 and the row stays pending.
C12_Witness ==
    \E s \in Req : \E c \in Req :
        /\ Post(s) /\ Get(c) /\ InHist(s) /\ InHist(c) /\ Pos(s) < Pos(c)
        /\ PendingWith(Before(s), req[c].param)
        /\ ~PendingWith(Before(c), req[c].param)
        /\ Responded(c, 404)
        /\ \E x \in store : x.email = EmailOf(s) /\ x.status = "pending"
                               /\ x.confirmation_token = req[s].token

\* s's upsert committed and its notifier call then failed.
NotifierFailed(s) == Post(s) /\ InHist(s) /\ req[s].sendResult = "failed"

\* C13: when the upsert succeeded and the notifier fails, subscribe answers
\* 200 on the stored record.
C13_NotifierFailureReportsSuccess ==
    \A s \in Req :
        NotifierFailed(s) =>
            /\ req[s].pc = "done"
            /\ req[s].resp.status = 200

\* C14: for a request whose notifier call failed after its upsert, every
\* revision of the handler gives the status this one gave, and the table
\* after the upsert is the one the shared upsert statement produces.
C14_UniformNotifierFailure ==
    \A s \in Req :
        NotifierFailed(s) =>
            /\ \A v \in Revisions : SendErrorRespOf(v).status = req[s].resp.status
            /\ After(s) = Upsert(Before(s), EmailOf(s), req[s].token)

\* C15: a subscribe whose connectivity probe throws is answered 503 and one
\* whose upsert throws is answered 500, in both cases with no statement
\* executed and no notifier call; a confirm whose update throws is answered
\* 500 with no statement executed; the table is what the statements that did
\* execute made it.
C15_StoreFailure ==
    /\ StoreIsLatest
    /\ \A r \in Req :
         /\ req[r].dbError = "probe" =>
               /\ Post(r) /\ Responded(r, 503)
               /\ Statements(r) = {} /\ req[r].rows = {}
               /\ req[r].sends = <<>> /\ req[r].sendResult = "none"
         /\ req[r].dbError = "upsert" =>
               /\ Post(r) /\ Responded(r, 500)
               /\ Statements(r) = {} /\ req[r].rows = {}
               /\ req[r].sends = <<>> /\ req[r].sendResult = "none"
         /\ req[r].dbError = "update" =>
               /\ Get(r) /\ Responded(r, 500)
               /\ Statements(r) = {} /\ req[r].rows = {}

\* A subscribe whose upsert threw and a confirm whose update threw, both
\* answered 500, the table untouched.
C15_Witness ==
    \E s \in Req : \E c \in Req :
        /\ Post(s) /\ req[s].dbError = "upsert" /\ Responded(s, 500)
        /\ Get(c) /\ req[c].dbError = "update" /\ Responded(c, 500)
        /\ PendingWith(store0, req[c].param)
        /\ store = store0

\* C16: the answer to a notifier failure after a successful upsert is never
\* the answer this revision gives to a store failure.
C16_NotifierNotConflated ==
    \A s \in Req :
        NotifierFailed(s) =>
            /\ req[s].resp # UpsertErrorResp
            /\ req[s].resp.status # 503

\* Two subscribe calls for one address whose upserts executed one right after
\* the other, s1's first.
ConcurrentSubscribes(s1, s2) ==
    /\ s1 # s2 /\ Post(s1) /\ Post(s2)
    /\ EmailOf(s1) = EmailOf(s2)
    /\ InHist(s1) /\ InHist(s2)
    /\ Pos(s2) = Pos(s1) + 1

\* The one row of address e in table S.
RowOf(S, e) == CHOOSE x \in S : x.email = e

\* C17 as stated: after two concurrent subscribe calls for one address there
\* is one record for it, holding the token of the upsert that executed last,
\* and every token that was handed to the notifier can still confirm the
\* address.
C17_NoTokenLost ==
    \A s1 \in Req : \A s2 \in Req :
        ConcurrentSubscribes(s1, s2) =>
            /\ Cardinality(RowsOf(After(s2), EmailOf(s1))) = 1
            /\ RowOf(After(s2), EmailOf(s1)).confirmation_token = req[s2].token
            /\ \A s \in {s1, s2} :
                 req[s].sends # <<>> => PendingWith(After(s2), req[s].token)

\* C17 amended: after two concurrent subscribe calls for one address there is
\* one record for it, holding the token of the upsert that executed last; the
\* two tokens differ, the earlier one is overwritten and cannot confirm the
\* address, and the later one can when it was handed to the notifier.
C17_LastWriterWins ==
    \A s1 \in Req : \A s2 \in Req :
        ConcurrentSubscribes(s1, s2) =>
            /\ Cardinality(RowsOf(After(s2), EmailOf(s1))) = 1
            /\ RowOf(After(s2), EmailOf(s1)).confirmation_token = req[s2].token
            /\ req[s1].token # req[s2].token
            /\ ~PendingWith(After(s2), req[s1].token)
            /\ \A x \in After(s2) : x.confirmation_token # req[s1].token
            /\ req[s2].sends # <<>> => PendingWith(After(s2), req[s2].token)
            /\ Len(hist) = Pos(s2) => store = After(s2)

\* Both calls are waiting for the notifier with their own tokens, and the
\* row holds the second one's.
C17_Witness ==
    \E s1 \in Req : \E s2 \in Req :
        /\ ConcurrentSubscribes(s1, s2)
        /\ req[s1].pc = "sending" /\ req[s2].pc = "sending"
        /\ req[s1].sends = <<Mail(s1)>> /\ req[s2].sends = <<Mail(s2)>>
        /\ PendingWith(store, req[s2].token)
        /\ ~PendingWith(store, req[s1].token)

\* s's upsert executed and returned the row as pending.
UpsertedPending(s) ==
    /\ Post(s) /\ InHist(s)
    /\ RowCount(req[s].rows) > 0
    /\ Row0(req[s].rows).status = "pending"

\* C18: in a subscribe call whose upsert returns the row as pending, the
\* upsert commits, then the notifier is called, then the call answers: a call
\* that has invoked the notifier has its upsert in the statement history, a
\* call waiting for the notifier has not answered, and a call that has
\* answered has a notifier attempt that ended in success or failure.
C18_UpsertSendRespond ==
    \A s \in Req :
        /\ (Post(s) /\ req[s].sends # <<>>) =>
              /\ UpsertedPending(s)
              /\ req[s].pc \in {"sending", "done"}
        /\ (Post(s) /\ req[s].sendResult # "none") => req[s].sends = <<Mail(s)>>
        /\ UpsertedPending(s) =>
              /\ req[s].pc \in {"upserted", "sending", "done"}
              /\ req[s].pc = "upserted" =>
                    req[s].sends = <<>> /\ req[s].resp = NoResp
              /\ req[s].pc = "sending" =>
                    /\ req[s].sends = <<Mail(s)>>
                    /\ req[s].sendResult = "none"
                    /\ req[s].resp = NoResp
              /\ req[s].pc = "done" =>
                    /\ req[s].sends = <<Mail(s)>>
                    /\ req[s].sendResult \in {"ok", "failed"}
                    /\ req[s].resp # NoResp

\* A subscribe on an unseen address that upserted, called the notifier, which
\* succeeded, and answered 200.
C18_Witness ==
    \E s \in Req :
        /\ UpsertedPending(s)
        /\ RowsOf(Before(s), EmailOf(s)) = {}
        /\ req[s].sends = <<Mail(s)>>
        /\ req[s].sendResult = "ok"
        /\ Responded(s, 200)

\* The next step of request q, which is past its arrival, can be taken.
CanStep(q) ==
    /\ req[q].pc = "probe" => ENABLED PostProbe(q)
    /\ req[q].pc = "upsert" => ENABLED PostUpsertExec(q)
    /\ req[q].pc = "upserted" => ENABLED PostUpsertReturn(q)
    /\ req[q].pc = "update" => ENABLED GetUpdateExec(q)
    /\ req[q].pc = "updated" => ENABLED GetUpdateReturn(q)

\* C19: while a subscribe call waits for the notifier its upsert is already
\* in the statement history, every other call, on the same address or
\* another, can take its next step (no lock or transaction is held), and a
\* call that has called the notifier has executed exactly one statement,
\* before and after the notifier returns; the table is what the executed
\* statements made it.
C19_StalledNotifier ==
    /\ StoreIsLatest
    /\ \A s \in Req :
         (Post(s) /\ req[s].pc = "sending") =>
            /\ InHist(s)
            /\ \A q \in Req \ {s} : CanStep(q)
    /\ \A s \in Req :
         (Post(s) /\ req[s].sends # <<>>) => Cardinality(Statements(s)) = 1

\* While one subscribe call waits for the notifier, a later subscribe call
\* for the same address has upserted, called the notifier and answered.
C19_Witness ==
    \E s \in Req : \E q \in Req :
        /\ Post(s) /\ req[s].pc = "sending"
        /\ Post(q) /\ EmailOf(q) = EmailOf(s)
        /\ InHist(q) /\ Pos(s) < Pos(q)
        /\ req[q].sendResult = "ok" /\ Responded(q, 200)
        /\ store = After(q)

\* C20: after a subscribe call's upsert succeeded and its notifier call
\* failed, the row is as the upsert wrote it, pending with this call's token,
\* until another statement writes it: the call executed that one statement
\* and nothing else wrote the table, and a confirm with the token, with no
\* statement on the address in between, matches the row and answers 200.
C20_NotifierFailureKeepsRecord ==
    /\ StoreIsLatest
    /\ \A s \in Req :
         NotifierFailed(s) =>
            /\ Cardinality(Statements(s)) = 1
            /\ Cardinality(RowsOf(After(s), EmailOf(s))) = 1
            /\ RowOf(After(s), EmailOf(s)).status = "pending"
            /\ RowOf(After(s), EmailOf(s)).confirmation_token = req[s].token
            /\ Len(hist) = Pos(s) => RowOf(After(s), EmailOf(s)) \in store
            /\ \A c \in Req :
                 RoundTrip(s, c) =>
                    /\ RowCount(req[c].rows) = 1
                    /\ Row0(req[c].rows).email = EmailOf(s)
                    /\ Answered(c) => req[c].resp.status = 200

\* The notifier failed for a subscribe call, and a later confirm with that
\* call's token answered 200; the address is confirmed.
C20_Witness ==
    \E s \in Req : \E c \in Req :
        /\ NotifierFailed(s) /\ Answered(s)
        /\ RoundTrip(s, c) /\ Responded(c, 200)
        /\ \E x \in store : x.email = EmailOf(s) /\ x.status = "confirmed"
                               /\ x.confirmation_token = NULL

\* C21: no request repeats a step: a subscribe request executes at most one
\* upsert and calls the notifier at most once, a confirm request executes at
\* most one update and never calls the notifier, and a request whose store
\* call threw or whose notifier call failed has answered without a second
\* attempt.
C21_NoRetry ==
    \A r \in Req :
        /\ Cardinality(Statements(r)) <= 1
        /\ Len(req[r].sends) <= 1
        /\ Get(r) => req[r].sends = <<>>
        /\ req[r].dbError # "none" =>
              /\ req[r].pc = "done"
              /\ Statements(r) = {}
              /\ req[r].sends = <<>>
        /\ req[r].sendResult = "failed" =>
              /\ req[r].pc = "done"
              /\ Cardinality(Statements(r)) = 1
              /\ Len(req[r].sends) = 1

\* A subscribe whose notifier call failed and a confirm whose update threw,
\* both answered after one attempt.
C21_Witness ==
    \E s \in Req : \E c \in Req :
        /\ NotifierFailed(s) /\ Answered(s) /\ Len(req[s].sends) = 1
        /\ Get(c) /\ req[c].dbError = "update" /\ Answered(c)
        /\ Len(hist) = 1

\* The key of a row: its id and its address.
KeyOf(x) == <<x.id, x.email>>

\* C22: every executed statement keeps every record with its id and address,
\* and makes no record unsubscribed; a subscribe's upsert leaves every record
\* of another address as it was; a confirm's update that matched changes
\* exactly one record, the one that held its token; and nothing but the
\* executed statements writes the table.
C22_FrameEffect ==
    /\ StoreIsLatest
    /\ \A k \in 1..Len(hist) :
         LET r == hist[k].r
             B == StoreAt(k - 1)
             A == StoreAt(k)
         IN  /\ {KeyOf(x) : x \in B} \subseteq {KeyOf(x) : x \in A}
             /\ \A x \in A : x.status = "unsubscribed" => x \in B
             /\ Post(r) =>
                   /\ \A x \in B : x.email # EmailOf(r) => x \in A
                   /\ \A x \in A : x.email # EmailOf(r) => x \in B
                   /\ Cardinality(A) <= Cardinality(B) + 1
             /\ Get(r) =>
                   /\ Cardinality(A) = Cardinality(B)
                   /\ \A x \in B : x.confirmation_token # req[r].param => x \in A
                   /\ RowCount(req[r].rows) > 0 => Cardinality(B \ A) = 1
                   /\ RowCount(req[r].rows) = 0 => A = B

\* An address on file subscribes and confirms while another record is on
\* file: the first keeps its id and the other is as it was at the start.
C22_Witness ==
    \E s \in Req : \E c \in Req : \E x \in store0 : \E y \in store0 :
        /\ RoundTrip(s, c) /\ Responded(c, 200)
        /\ x.email = EmailOf(s) /\ y.email # EmailOf(s)
        /\ y \in store
        /\ Row(x.id, x.email, "confirmed", NULL) \in store
        /\ Cardinality(store) = Cardinality(store0)

\* The positions of "@" in s.
AtSigns(s) == {i \in 1..Len(s) : s[i] = "@"}

\* s has no whitespace, exactly one "@" with a character before it, and after
\* the "@" a "." with a character before it and a character after it.
LocalAtDomainTld(s) ==
    /\ \A i \in 1..Len(s) : s[i] \notin Whitespace
    /\ Cardinality(AtSigns(s)) = 1
    /\ \A p \in AtSigns(s) :
         /\ p > 1
         /\ \E d \in (p + 2)..(Len(s) - 1) : s[d] = "."

\* C23: a subscribe request with a non-empty email string passes the format
\* check exactly when the string has no whitespace, exactly one "@" with a
\* character before it, and after the "@" a "." with a character on each
\* side; every other non-empty string is answered 400 with the format
\* message.
C23_FormatCheckExact ==
    \A r \in Req :
        (Post(r) /\ req[r].body.parsed /\ req[r].body.has
                 /\ req[r].body.email # <<>>) =>
            IF LocalAtDomainTld(req[r].body.email)
            THEN req[r].pc \in {"probe", "upsert"} /\ req[r].resp = NoResp
            ELSE /\ req[r].pc = "done"
                 /\ req[r].resp = Resp(400, "Please enter a valid email address format.")

\* "a@..a" is accepted: the second dot has a character on each side.
C23_Witness ==
    \E r \in Req :
        /\ Post(r) /\ req[r].body.email = <<"a", "@", ".", ".", "a">>
        /\ req[r].pc \in {"probe", "upsert"}

\* Token t was the token of s's address before s's upsert replaced it: the
\* one on file at the start, or the one of an earlier subscribe for it.
EarlierToken(s, t) ==
    \/ \E x \in store0 : x.email = EmailOf(s) /\ SqlEq(x.confirmation_token, t)
    \/ \E s1 \in Req : /\ Post(s1) /\ InHist(s1)
                        /\ EmailOf(s1) = EmailOf(s)
                        /\ Pos(s1) < Pos(s)
                        /\ req[s1].token = t

\* The tokens that would confirm address e in table S.
ConfirmingTokens(S, e) ==
    {x.confirmation_token : x \in {y \in S : y.email = e /\ y.status = "pending"
                                              /\ y.confirmation_token # NULL}}

\* C24: once a subscribe has replaced an address's token, a confirm with an
\* earlier token of that address matches nothing, changes nothing and is
\* answered 404; a confirm with the token of the latest subscribe on a pending
\* address matches its row and is answered 200; and at every moment at most
\* one token can confirm an address.
C24_OnlyLatestToken ==
    /\ \A s \in Req : \A c \in Req :
         (Post(s) /\ Get(c) /\ InHist(s) /\ InHist(c) /\ Pos(s) < Pos(c)
                  /\ EarlierToken(s, req[c].param)) =>
            /\ req[c].rows = {}
            /\ After(c) = Before(c)
            /\ Answered(c) => req[c].resp.status = 404
    /\ \A s \in Req : \A c \in Req :
         (RoundTrip(s, c) /\ \E x \in Before(s) : x.email = EmailOf(s)
                                                  /\ x.status = "pending") =>
            /\ RowCount(req[c].rows) = 1
            /\ Answered(c) => req[c].resp.status = 200
    /\ \A k \in 0..Len(hist) : \A e \in ValidEmails :
         Cardinality(ConfirmingTokens(StoreAt(k), e)) <= 1

\* A pending address subscribed again and its mail was sent; a confirm with
\* the token it held at the start is answered 404, and the row is pending
\* with the new token.
C24_Witness ==
    \E s \in Req : \E c \in Req : \E x \in store0 :
        /\ Post(s) /\ Get(c) /\ InHist(s) /\ InHist(c) /\ Pos(s) < Pos(c)
        /\ x.email = EmailOf(s) /\ x.status = "pending"
        /\ req[c].param = x.confirmation_token
        /\ req[s].sendResult = "ok"
        /\ Responded(c, 404)
        /\ ConfirmingTokens(store, EmailOf(s)) = {req[s].token}

\* This step is s's call of the notifier.
InvokesNotifier(s) ==
    /\ req[s].pc = "upserted"
    /\ req'[s].pc = "sending"
    /\ req'[s].sends = <<Mail(s)>>

\* A statement executed after s's upsert wrote the row of s's address.
WrittenSince(s) ==
    \E k \in (Pos(s) + 1)..Len(hist) : Touches(hist[k].r, EmailOf(s))

\* C25 as stated: at the step in which a subscribe call invokes the notifier
\* with (address, T), the record of that address is pending and holds T.
C25_SentTokenCurrent ==
    [][\A s \in Req :
          InvokesNotifier(s) =>
             \E x \in store : /\ x.email = EmailOf(s)
                               /\ x.status = "pending"
                               /\ x.confirmation_token = req[s].token]_vars

\* C25 amended: at the step in which a subscribe call invokes the notifier
\* with (address, T), its own upsert has left the record pending with T, and
\* the record is still pending with T unless another statement on that
\* address has executed since; then the token sent may be stale or used.
C25_SentTokenWritten ==
    [][\A s \in Req :
          InvokesNotifier(s) =>
             /\ InHist(s)
             /\ \E x \in After(s) : /\ x.email = EmailOf(s)
                                      /\ x.status = "pending"
                                      /\ x.confirmation_token = req[s].token
             /\ \/ WrittenSince(s)
                \/ \E x \in store : /\ x.email = EmailOf(s)
                                     /\ x.status = "pending"
                                     /\ x.confirmation_token = req[s].token]_vars

\* A subscribe call is handing its token to the notifier while the row holds
\* the token of another subscribe call for that address, which upserted
\* later and has already answered.
C25_Witness ==
    \E s \in Req : \E s2 \in Req :
        /\ ConcurrentSubscribes(s, s2)
        /\ req[s].pc = "sending" /\ req[s].sends = <<Mail(s)>>
        /\ Responded(s2, 200)
        /\ WrittenSince(s)
        /\ ~PendingWith(store, req[s].token)
        /\ PendingWith(store, req[s2].token)

\* No two rows of table S hold the same non-null token.
TokensDistinct(S) ==
    \A x \in S : \A y \in S :
        (x # y /\ x.confirmation_token # NULL) =>
            x.confirmation_token # y.confirmation_token

\* C26: with every subscribe call generating a token never generated before,
\* no two records hold the same non-null token, at any point of the statement
\* history, and a confirm's update matches and changes at most one record.
C26_TokensUnique ==
    /\ TokensDistinct(store)
    /\ \A k \in 0..Len(hist) : TokensDistinct(StoreAt(k))
    /\ \A s1 \in Req : \A s2 \in Req :
         (s1 # s2 /\ Post(s1) /\ Post(s2) /\ req[s1].token # NULL) =>
            req[s1].token # req[s2].token
    /\ \A c \in Req :
         (Get(c) /\ InHist(c)) =>
            /\ RowCount(req[c].rows) <= 1
            /\ Cardinality(Before(c) \ After(c)) <= 1

\* Two records hold tokens, one of them written by a subscribe call, and a
\* confirm with that call's token has matched exactly one record; the other
\* record still holds its token.
C26_Witness ==
    \E s \in Req : \E c \in Req : \E y \in store :
        /\ RoundTrip(s, c)
        /\ RowCount(req[c].rows) = 1
        /\ y.email # EmailOf(s)
        /\ y.confirmation_token # NULL
        /\ Cardinality({x \in Before(c) : x.confirmation_token # NULL}) = 2

\* C27: when every awaited store query and notifier send completes, the
\* handlers always come back to a state with no request in flight; a
\* finished request takes no further step, so every request that arrived
\* ends answered and its response is the only one; and a request has a
\* response exactly when it has finished.
C27_EventuallyOneResponse ==
    /\ []<>(\A r \in Req : ~InFlight(r))
    /\ [](\A r \in Req : (req[r].pc = "done") <=> (req[r].resp # NoResp))
    /\ [][\A r \in Req : req[r].pc = "done" => req'[r] = req[r]]_vars

\* Every request has been answered, among them a subscribe that called the
\* notifier and a confirm whose update executed.
C27_Witness ==
    /\ \A r \in Req : Answered(r) /\ req[r].resp # NoResp
    /\ \E s \in Req : Post(s) /\ req[s].sendResult # "none"
    /\ \E c \in Req : Get(c) /\ InHist(c)

\* C28: a subscribe request whose body cannot be parsed is answered 400, with
\* no store statement, no token and no notifier call, in every revision.
C28_UnparsableBodyRejected ==
    \A r \in Req :
        (Post(r) /\ ~req[r].body.parsed) =>
            /\ req[r].pc = "done"
            /\ req[r].resp.status = 400
            /\ Statements(r) = {}
            /\ req[r].token = NULL
            /\ req[r].sends = <<>>

====
